---- MODULE Spec2Model ----
(***************************************************************************)
(* A model of three clippy lint passes:                                    *)
(*   - tabs_in_doc_comments.rs : get_chunks_of_tabs, warn_if_tabs_in_doc   *)
(*   - mem_replace.rs          : MemReplace::check_expr and its checks     *)
(*   - methods/option_map_unwrap_or.rs : lint                              *)
(* The driver offers one node at a time to a pass and the pass runs to     *)
(* completion before the next node is offered.  Source text is modelled    *)
(* by strings, spans by byte offsets into the text of the visited file.    *)
(***************************************************************************)
EXTENDS Integers, Sequences, FiniteSets, TLC

VARIABLES
    pc,              \* position of the driver / of get_chunks_of_tabs
    node,            \* the node last offered to a pass
    findings,        \* what the pass handed to the reporter for that node
    the_str,         \* get_chunks_of_tabs: its argument
    index,           \* get_chunks_of_tabs: number of windows consumed
    current_start,   \* get_chunks_of_tabs: local
    is_active,       \* get_chunks_of_tabs: local
    spans,           \* get_chunks_of_tabs: local, then the return value
    pass,            \* 1: scan of the comment, 2: scan of the fixed comment
    bits,            \* width of the scanner's offset type
    overflow_checks  \* whether the build traps on arithmetic overflow

vars == <<pc, node, findings, the_str, index, current_start, is_active, spans,
          pass, bits, overflow_checks>>

scan_vars == <<the_str, index, current_start, is_active, spans, pass>>

build_vars == <<bits, overflow_checks>>

(***************************************************************************)
(* Bounds of the model.                                                    *)
(***************************************************************************)
\* longest comment text enumerated exhaustively
MaxLen == 6

\* width of the offsets in the narrowed build used to reach the overflow
NarrowBits == 3

\* longest free tail appended to a long filler text
MaxTail == 2

(***************************************************************************)
(* Text.                                                                   *)
(***************************************************************************)
TAB == "\t"

\* a character that takes two bytes in UTF-8, such as U+00E9
WIDE == "E"

\* the characters comment texts are made of
Chars == {TAB, "a", WIDE}

\* the bytes of a character in the source file, one character per byte
Utf8(c) == IF c = WIDE THEN "<>" ELSE c

RECURSIVE ByteText(_)
\* the bytes of a text in the source file
ByteText(s) ==
    IF s = "" THEN ""
    ELSE Utf8(SubSeq(s, 1, 1)) \o ByteText(SubSeq(s, 2, Len(s)))

\* the_str.chars().collect()[i], i counted from 0
CharAt(s, i) == SubSeq(s, i + 1, i + 1)

\* the_str.chars().count()
CharCount(s) == Len(s)

RECURSIVE Texts(_)
Texts(n) == IF n = 0 THEN {""}
            ELSE LET P == Texts(n - 1) IN P \cup {p \o c : p \in P, c \in Chars}

RECURSIVE Repeat(_, _)
\* str::repeat
Repeat(s, n) == IF n <= 0 THEN "" ELSE s \o Repeat(s, n - 1)

(***************************************************************************)
(* u32 arithmetic of get_chunks_of_tabs.  The model's integers are below   *)
(* 2^31, so every value fits a 32 bit offset; a narrower width is used to  *)
(* reach the overflow.                                                     *)
(***************************************************************************)
U32Bits == 32

\* u32::try_from(n).is_ok()
TryFromFits(n, w) == w >= 31 \/ n < 2 ^ w

\* wrapping result of a u32 operation
Wrap(n, w) == IF w >= 31 THEN n ELSE n % (2 ^ w)

(***************************************************************************)
(* Spans and findings.                                                     *)
(***************************************************************************)
\* Span::new(lo, hi, ctxt)
Span(lo, hi, ctxt) == [lo |-> lo, hi |-> hi, ctxt |-> ctxt]

\* the expansion contexts a span may carry
ROOT == "root"
LOCAL_MACRO == "local_macro"
EXTERNAL_MACRO == "external_macro"
Ctxts == {ROOT, LOCAL_MACRO, EXTERNAL_MACRO}

\* one (span, replacement-text) part of a suggestion
Edit(span, text) == [span |-> span, text |-> text]

\* what a pass hands to the reporter
Finding(lint, span, msg, help, edits, applicability) ==
    [lint |-> lint, span |-> span, msg |-> msg, help |-> help,
     edits |-> edits, applicability |-> applicability]

(***************************************************************************)
(* tabs_in_doc_comments.rs                                                 *)
(***************************************************************************)
\* chars_array.windows(2).len()
NumWindows(s) == IF CharCount(s) >= 2 THEN CharCount(s) - 1 ELSE 0

\* the arm of `match arr` taken by the window [a, b]
WindowArm(a, b) ==
    CASE a = TAB /\ b = TAB -> "tab_tab"
      [] b = TAB -> "any_tab"
      [] a = TAB -> "tab_any"
      [] OTHER -> "other"

\* variant: the group starts at the window, not after it
StartOfGroupAtWindow(idx, w) == Wrap(idx, w)

\* current_start = index + 1
StartOfGroup(idx, w) == Wrap(idx + 1, w)

\* variant: the group ends at the window, not after it
EndOfGroupAtWindow(idx, w) == Wrap(idx, w)

\* the end pushed by the ['\t', _] arm: index + 1
EndOfGroup(idx, w) == Wrap(idx + 1, w)

\* `index + 1` is evaluated in this arm and does not fit the offset type
AddOverflows(arm, idx, w) ==
    arm \in {"any_tab", "tab_any"} /\ ~TryFromFits(idx + 1, w)

\* the locals of get_chunks_of_tabs before the first window
ScanReset ==
    /\ index' = 0
    /\ current_start' = 0
    /\ is_active' = FALSE
    /\ spans' = <<>>

\* the documentation comments and other attributes offered to the pass
LongTexts ==
    {Repeat(c, n) \o t : c \in Chars,
                        n \in (2 ^ NarrowBits - 2)..(2 ^ NarrowBits + 1),
                        t \in Texts(MaxTail)}

DocTexts == Texts(MaxLen) \cup LongTexts

AttrLos == {0, 7}

Attributes ==
    [kind : {"DocComment"}, comment : DocTexts, lo : AttrLos, ctxt : {ROOT}]
    \cup [kind : {"Normal"}, comment : {""}, lo : AttrLos, ctxt : {ROOT}]

\* EarlyLintPass::check_attribute -> warn_if_tabs_in_doc, up to the call of
\* get_chunks_of_tabs
check_attribute(attr) ==
    /\ pc = "idle"
    /\ node' = attr
    /\ findings' = <<>>
    /\ pass' = 1
    /\ ScanReset
    /\ IF attr.kind = "DocComment"
       THEN the_str' = attr.comment /\ pc' = "call"
       ELSE the_str' = "" /\ pc' = "visited"
    /\ UNCHANGED build_vars

\* get_chunks_of_tabs: the initialisation and the single-tab early return
get_chunks_of_tabs_enter ==
    /\ pc = "call"
    /\ index' = 0
    /\ current_start' = 0
    /\ is_active' = FALSE
    /\ IF the_str = TAB
       THEN spans' = <<(<<0, 1>>)>> /\ pc' = "returned"
       ELSE spans' = <<>> /\ pc' = "windows"
    /\ UNCHANGED <<node, findings, the_str, pass, build_vars>>

\* get_chunks_of_tabs: one iteration of the loop over the windows
get_chunks_of_tabs_window ==
    /\ pc = "windows"
    /\ index < NumWindows(the_str)
    /\ LET arm == WindowArm(CharAt(the_str, index), CharAt(the_str, index + 1))
           panics == \/ ~TryFromFits(index, bits)
                     \/ (AddOverflows(arm, index, bits) /\ overflow_checks)
       IN IF panics
          THEN /\ pc' = "panicked"
               /\ UNCHANGED <<index, current_start, is_active, spans>>
          ELSE /\ pc' = "windows"
               /\ index' = index + 1
               /\ is_active' = CASE arm \in {"tab_tab", "any_tab"} -> TRUE
                                 [] arm = "tab_any" -> FALSE
                                 [] OTHER -> is_active
               /\ current_start' = IF arm = "any_tab"
                                   THEN StartOfGroup(index, bits)
                                   ELSE current_start
               /\ spans' = IF arm = "tab_any"
                           THEN Append(spans, <<current_start, EndOfGroup(index, bits)>>)
                           ELSE spans
    /\ UNCHANGED <<node, findings, the_str, pass, build_vars>>

\* get_chunks_of_tabs: after the loop, the group that reaches the end
get_chunks_of_tabs_finish ==
    /\ pc = "windows"
    /\ index >= NumWindows(the_str)
    /\ IF is_active
       THEN IF TryFromFits(CharCount(the_str), bits)
            THEN /\ spans' = Append(spans, <<current_start, CharCount(the_str)>>)
                 /\ pc' = "returned"
            ELSE /\ spans' = spans
                 /\ pc' = "panicked"
       ELSE /\ spans' = spans
            /\ pc' = "returned"
    /\ UNCHANGED <<node, findings, the_str, index, current_start, is_active,
                   pass, build_vars>>

SpacesPerTab == 4

\* "    ".repeat((hi - lo) as usize)
Replacement(lo, hi) == Repeat(Repeat(" ", SpacesPerTab), hi - lo)

\* the finding warn_if_tabs_in_doc makes of one chunk
TabFinding(attr, chunk) ==
    LET new_span == Span(attr.lo + chunk[1], attr.lo + chunk[2], attr.ctxt)
    IN Finding("TABS_IN_DOC_COMMENTS", new_span,
               "using tabs in doc comments is not recommended",
               "consider using four spaces per tab",
               <<Edit(new_span, Replacement(chunk[1], chunk[2]))>>,
               "MaybeIncorrect")

\* the chunks before the first one whose end lies below its start
RECURSIVE SoundPrefix(_)
SoundPrefix(chunks) ==
    IF chunks = <<>> \/ chunks[1][2] < chunks[1][1] THEN <<>>
    ELSE <<chunks[1]>> \o SoundPrefix(Tail(chunks))

\* warn_if_tabs_in_doc: the loop over the chunks returned.  For a chunk with
\* hi < lo the u32 subtraction hi - lo traps, or wraps to a repeat count the
\* allocation of which fails: the findings made so far stay reported.
warn_if_tabs_in_doc ==
    /\ pc = "returned"
    /\ LET ok == SoundPrefix(spans)
       IN /\ findings' = [i \in 1..Len(ok) |-> TabFinding(node, ok[i])]
          /\ IF Len(ok) = Len(spans)
             THEN /\ pc' = "visited"
                  /\ the_str' = ""
                  /\ pass' = 1
                  /\ ScanReset
             ELSE /\ pc' = "panicked"
                  /\ UNCHANGED scan_vars
    /\ UNCHANGED <<node, build_vars>>

RECURSIVE ReplaceChunks(_, _, _)
\* the text with every character of every chunk replaced by its share of
\* the chunk's replacement, character offset k onwards
ReplaceChunks(s, chunks, k) ==
    IF k >= CharCount(s) THEN ""
    ELSE LET inChunk == \E i \in 1..Len(chunks) : chunks[i][1] <= k /\ k < chunks[i][2]
         IN (IF inChunk THEN Replacement(k, k + 1) ELSE CharAt(s, k))
            \o ReplaceChunks(s, chunks, k + 1)

\* the suggestions of the first scan are applied and the comment is scanned
\* again
rescan_fixed ==
    /\ pc = "returned"
    /\ pass = 1
    /\ the_str' = ReplaceChunks(the_str, spans, 0)
    /\ pass' = 2
    /\ pc' = "call"
    /\ ScanReset
    /\ UNCHANGED <<node, findings, build_vars>>


(***************************************************************************)
(* Expressions of the typed tree, as far as the passes look at them.       *)
(* kind: the ExprKind; tag: what the pass matches inside that kind; text:  *)
(* the source text the node itself contributes; kids: the sub-expressions  *)
(* whose text follows it.                                                  *)
(***************************************************************************)
Node(kind, tag, segs, text, kids) ==
    [kind |-> kind, tag |-> tag, segs |-> segs, text |-> text, kids |-> kids]

\* an expression that is no path
Expr(kind, tag, text, kids) == Node(kind, tag, <<>>, text, kids)

\* ExprKind::Path(QPath::Resolved(None, path)) with the given segments
RESOLVED == "Resolved(None, _)"
\* ExprKind::Path(QPath::Resolved(Some(qself), path))
QUALIFIED == "Resolved(Some(_), _)"
\* ExprKind::Path(QPath::TypeRelative(ty, segment))
TYPE_RELATIVE == "TypeRelative(_, _)"

\* a path: its segments, its text and the type paths inside it (the qself
\* type, the generic arguments)
Path(tag, segs, text, kids) == Node("Path", tag, segs, text, kids)

\* a path of one segment
PathExpr(tag, text) == Path(tag, <<text>>, text, <<>>)

\* ExprKind::AddrOf(borrow kind, mutability, inner); text is the operator
AddrOf(tag, text, inner) == Expr("AddrOf", tag, text, <<inner>>)

\* ExprKind::Call(func, args); tag is what func resolves to, text is func
Call(tag, text, args) == Expr("Call", tag, text, args)

RECURSIVE ExprText(_)
RECURSIVE ArgsText(_)
\* the source text of a list of call arguments
ArgsText(args) ==
    IF args = <<>> THEN ""
    ELSE ExprText(args[1])
         \o (IF Len(args) > 1 THEN ", " ELSE "") \o ArgsText(Tail(args))

\* the source text of an expression
ExprText(e) ==
    CASE e.kind = "Call" -> e.text \o "(" \o ArgsText(e.kids) \o ")"
      [] e.kind = "Binary" -> ExprText(e.kids[1]) \o e.text \o ExprText(e.kids[2])
      [] e.kind = "Path" \/ e.kids = <<>> -> e.text
      [] OTHER -> e.text \o ExprText(e.kids[1])

\* the span of the first argument of a call placed at span sp
FirstArgSpan(e, sp) ==
    LET lo == sp.lo + Len(e.text) + 1
    IN Span(lo, lo + Len(ExprText(e.kids[1])), sp.ctxt)

\* the span of the operand of a unary expression placed at span sp
KidSpan(e, sp) == Span(sp.lo + Len(e.text), sp.hi, sp.ctxt)

\* utils::snippet and utils::snippet_with_applicability: the source text
\* under a span
snippet(source, sp) == SubSeq(source, sp.lo + 1, sp.hi)

\* utils::in_macro: the span comes from an expansion
in_macro(sp) == sp.ctxt # ROOT

\* rustc::lint::in_external_macro: the expansion is of a macro of another crate
in_external_macro(sp) == sp.ctxt = EXTERNAL_MACRO

\* utils::span_lint_and_sugg: a finding with one edit, on the linted span
span_lint_and_sugg(lint, sp, msg, help, sugg, applicability) ==
    Finding(lint, sp, msg, help, <<Edit(sp, sugg)>>, applicability)

\* utils::span_help_and_lint: a finding with a help note and no edit
span_help_and_lint(lint, sp, msg, help) ==
    Finding(lint, sp, msg, help, <<>>, "NoSuggestion")

(***************************************************************************)
(* mem_replace.rs                                                          *)
(***************************************************************************)
\* paths::OPTION_NONE
OPTION_NONE == <<"Option", "None">>

\* utils::match_qpath for a resolved path: the segments, compared from the
\* last one backwards as far as both lists reach
match_qpath(segments, path) ==
    \A i \in 0..(Len(segments) - 1) :
        i < Len(path) => segments[Len(segments) - i] = path[Len(path) - i]

\* variant: any borrow of a path is accepted
DestPathAnyBorrow(dest, dest_span) ==
    CASE dest.kind = "AddrOf" /\ dest.kids[1].kind = "Path"
            /\ dest.kids[1].tag = RESOLVED ->
            <<KidSpan(dest, dest_span)>>
      [] dest.kind = "Path" /\ dest.tag = RESOLVED -> <<dest_span>>
      [] OTHER -> <<>>

\* the `match dest.kind` of check_replace_option_with_none: the span of
\* replaced_path, in a list that is empty where the function returns
DestPath(dest, dest_span) ==
    CASE dest.kind = "AddrOf" /\ dest.tag = "Ref, Mut"
            /\ dest.kids[1].kind = "Path" /\ dest.kids[1].tag = RESOLVED ->
            <<KidSpan(dest, dest_span)>>
      [] dest.kind = "Path" /\ dest.tag = RESOLVED -> <<dest_span>>
      [] OTHER -> <<>>

check_replace_option_with_none(source, src, dest, dest_span, expr_span) ==
    IF src.kind = "Path"
          /\ match_qpath(src.segs, OPTION_NONE)
          /\ DestPath(dest, dest_span) # <<>>
    THEN <<span_lint_and_sugg(
             "MEM_REPLACE_OPTION_WITH_NONE", expr_span,
             "replacing an Option with None",
             "consider Option::take() instead",
             snippet(source, DestPath(dest, dest_span)[1]) \o ".take()",
             "MachineApplicable")>>
    ELSE <<>>


\* what the callee of a call resolves to
NOT_A_PATH == "func.kind is not a path"
NO_DEF_ID == "path without a def id"
MEM_REPLACE == "core::mem::replace"
MEM_UNINITIALIZED == "core::mem::uninitialized"
MEM_ZEROED == "core::mem::zeroed"
DEFAULT_TRAIT_METHOD == "core::default::Default::default"
OTHER_FN == "some::other::function"

\* `if let ExprKind::Path(..) = func.kind` and `qpath_res(..).opt_def_id()`:
\* the def id of the callee, in a list that is empty where there is none
opt_def_id(call) ==
    IF call.tag \in {NOT_A_PATH, NO_DEF_ID} THEN <<>> ELSE <<call.tag>>

\* utils::match_def_path
match_def_path(def_id, path) == def_id = path

\* variant: mem::zeroed() is flagged for primitive types too
ZeroedAlwaysFlagged(src_ty_is_primitive) == TRUE

\* !cx.tables.expr_ty(src).is_primitive()
ZeroedIsFlagged(src_ty_is_primitive) == ~src_ty_is_primitive

check_replace_with_uninit(src, src_ty_is_primitive, expr_span) ==
    IF src.kind = "Call" /\ src.kids = <<>> /\ opt_def_id(src) # <<>>
    THEN LET repl_def_id == opt_def_id(src)[1]
         IN CASE match_def_path(repl_def_id, MEM_UNINITIALIZED) ->
                   <<span_help_and_lint(
                       "MEM_REPLACE_WITH_UNINIT", expr_span,
                       "replacing with mem::uninitialized()",
                       "consider using the take_mut crate instead")>>
              [] match_def_path(repl_def_id, MEM_ZEROED)
                    /\ ZeroedIsFlagged(src_ty_is_primitive) ->
                   <<span_help_and_lint(
                       "MEM_REPLACE_WITH_UNINIT", expr_span,
                       "replacing with mem::zeroed()",
                       "consider using a default value or the take_mut crate instead")>>
              [] OTHER -> <<>>
    ELSE <<>>

\* variant: the snippet is taken of the call, not of dest
TakeSuggestionOfCall(source, dest_span, expr_span) ==
    "std::mem::take(" \o snippet(source, expr_span) \o ")"

\* format!("std::mem::take({})", snippet(cx, dest.span, ""))
TakeSuggestion(source, dest_span, expr_span) ==
    "std::mem::take(" \o snippet(source, dest_span) \o ")"

\* variant: the suggestion is added inside expansions too
DefaultEditsAlways(source, dest_span, expr_span) ==
    <<Edit(expr_span, TakeSuggestion(source, dest_span, expr_span))>>

\* the closure handed to span_lint_and_then: the suggestion is added only
\* outside expansions
DefaultEdits(source, dest_span, expr_span) ==
    IF ~in_macro(expr_span)
    THEN <<Edit(expr_span, TakeSuggestion(source, dest_span, expr_span))>>
    ELSE <<>>

check_replace_with_default(source, src, dest_span, expr_span) ==
    IF src.kind = "Call"
          /\ ~in_external_macro(expr_span)
          /\ opt_def_id(src) # <<>>
          /\ match_def_path(opt_def_id(src)[1], DEFAULT_TRAIT_METHOD)
    THEN <<Finding("MEM_REPLACE_WITH_DEFAULT", expr_span,
                   "replacing a value of type T with T::default() is better expressed using std::mem::take",
                   "consider using",
                   DefaultEdits(source, dest_span, expr_span),
                   "MachineApplicable")>>
    ELSE <<>>

\* MemReplace::check_expr on the node n = [expr, source, span, src_ty_is_primitive]
check_expr(n) ==
    IF /\ n.expr.kind = "Call"
       /\ opt_def_id(n.expr) # <<>>
       /\ match_def_path(opt_def_id(n.expr)[1], MEM_REPLACE)
       /\ Len(n.expr.kids) = 2
    THEN LET dest == n.expr.kids[1]
             src == n.expr.kids[2]
             dest_span == FirstArgSpan(n.expr, n.span)
         IN check_replace_option_with_none(n.source, src, dest, dest_span, n.span)
            \o check_replace_with_uninit(src, n.src_ty_is_primitive, n.span)
            \o check_replace_with_default(n.source, src, dest_span, n.span)
    ELSE <<>>

\* the destinations offered
DestLeaves ==
    {PathExpr(RESOLVED, "x"), PathExpr(RESOLVED, "text"),
     Path(RESOLVED, <<"m", "X">>, "m::X", <<>>),
     Path(QUALIFIED, <<"Tr", "X">>, "<T as Tr>::X", <<PathExpr(RESOLVED, "T")>>),
     Path(TYPE_RELATIVE, <<"X">>, "T::X", <<PathExpr(RESOLVED, "T")>>),
     Expr("Index", "", "v[i]", <<>>), Expr("Field", "", "s.f", <<>>)}

Borrows ==
    {<<"Ref, Mut", "&mut ">>, <<"Ref, Not", "&">>, <<"Raw, Mut", "&raw mut ">>}

Dests ==
    DestLeaves
    \cup {AddrOf(b[1], b[2], d) : b \in Borrows, d \in DestLeaves}
    \cup {AddrOf("Ref, Mut", "&mut ", AddrOf("Ref, Mut", "&mut ", d)) :
            d \in {PathExpr(RESOLVED, "x")}}

\* the replacement values offered
Callees ==
    {<<NOT_A_PATH, "(make)">>, <<NO_DEF_ID, "f">>,
     <<MEM_UNINITIALIZED, "mem::uninitialized">>, <<MEM_ZEROED, "mem::zeroed">>,
     <<DEFAULT_TRAIT_METHOD, "String::default">>,
     <<DEFAULT_TRAIT_METHOD, "Default::default">>,
     <<OTHER_FN, "String::new">>}

ArgLists ==
    {<<>>, <<PathExpr(RESOLVED, "a")>>,
     <<PathExpr(RESOLVED, "a"), PathExpr(RESOLVED, "b")>>}

Srcs ==
    {PathExpr(RESOLVED, "None"),
     Path(RESOLVED, <<"Option", "None">>, "Option::None", <<>>),
     Path(RESOLVED, <<"Other", "None">>, "Other::None", <<>>),
     PathExpr(RESOLVED, "y"),
     Expr("Lit", "", "0", <<>>)}
    \cup {Call(c[1], c[2], args) : c \in Callees, args \in ArgLists}

Leads == {"", "let old = "}

\* a call placed in a line of source text
CallNode(lead, call, ctxt, prim) ==
    [kind |-> "Expr", expr |-> call, source |-> lead \o ExprText(call) \o ";",
     span |-> Span(Len(lead), Len(lead) + Len(ExprText(call)), ctxt),
     src_ty_is_primitive |-> prim]

\* the call expressions offered to MemReplace
ReplaceNodes ==
    {CallNode(lead, Call(MEM_REPLACE, "mem::replace", <<d, s>>), c, prim) :
        lead \in Leads, d \in Dests, s \in Srcs, c \in Ctxts, prim \in BOOLEAN}
    \cup {CallNode("", Call(f, "g", <<d, PathExpr(RESOLVED, "None")>>), ROOT, FALSE) :
            f \in {OTHER_FN, NO_DEF_ID, NOT_A_PATH}, d \in {PathExpr(RESOLVED, "x")}}
    \cup {CallNode("", Call(MEM_REPLACE, "mem::replace", args), ROOT, FALSE) :
            args \in {<<PathExpr(RESOLVED, "None")>>,
                      <<PathExpr(RESOLVED, "x"), PathExpr(RESOLVED, "None"),
                        PathExpr(RESOLVED, "None")>>}}
    \cup {[kind |-> "Expr", expr |-> PathExpr(RESOLVED, "x"), source |-> "x;",
           span |-> Span(0, 1, ROOT), src_ty_is_primitive |-> FALSE]}

\* LateLintPass::check_expr of MemReplace, with what it reports
MemReplace_check_expr(n) ==
    /\ pc = "idle"
    /\ node' = n
    /\ findings' = check_expr(n)
    /\ pc' = "visited"
    /\ UNCHANGED <<scan_vars, build_vars>>

\* the reporter has taken the findings; the driver moves to the next node
next_node ==
    /\ pc = "visited"
    /\ pc' = "idle"
    /\ node' = [kind |-> "None"]
    /\ findings' = <<>>
    /\ UNCHANGED <<scan_vars, build_vars>>


(***************************************************************************)
(* methods/option_map_unwrap_or.rs                                         *)
(***************************************************************************)
\* ident: the name of the last segment of a path
ident(path) == path.segs[Len(path.segs)]

\* intravisit reaches visit_path for this node: a resolved path, with or
\* without a qself; of a type-relative path only the qself type is a path
IsVisitedPath(e) == e.kind = "Path" /\ e.tag # TYPE_RELATIVE

RECURSIVE UnwrapVisitor(_)
\* UnwrapVisitor::visit_expr: the identifiers inserted under e
UnwrapVisitor(e) ==
    (IF IsVisitedPath(e) THEN {ident(e)} ELSE {})
    \cup UNION {UnwrapVisitor(e.kids[i]) : i \in 1..Len(e.kids)}

RECURSIVE MapExprVisitor(_, _)
\* MapExprVisitor::visit_expr: found_identifier after the walk of e
MapExprVisitor(e, identifiers) ==
    IF IsVisitedPath(e) /\ ident(e) \in identifiers
    THEN TRUE
    ELSE \E i \in 1..Len(e.kids) : MapExprVisitor(e.kids[i], identifiers)

\* utils::differing_macro_contexts
differing_macro_contexts(lhs, rhs) == rhs.ctxt # lhs.ctxt

\* variant: the identifier guard runs for Copy defaults too
GuardAlways(default_is_copy) == TRUE

\* `if !is_copy(cx, cx.tables.expr_ty(&unwrap_args[1]))`
GuardApplies(default_is_copy) == ~default_is_copy

\* variant: the deletion starts one character late
TrailingSpanPastParen(expr_span, unwrap_recv_span) ==
    Span(unwrap_recv_span.hi + 1, expr_span.hi, expr_span.ctxt)

\* expr.span.with_lo(unwrap_args[0].span.hi())
TrailingSpan(expr_span, unwrap_recv_span) ==
    Span(unwrap_recv_span.hi, expr_span.hi, expr_span.ctxt)

\* variant: the parts are listed in the order of their starts
SuggestionInSourceOrder(n, unwrap_snippet) ==
    LET unwrap_snippet_none == unwrap_snippet = "None"
    IN <<Edit(n.map_span, IF unwrap_snippet_none THEN "and_then" ELSE "map_or")>>
       \o (IF ~unwrap_snippet_none
           THEN <<Edit(Span(n.map_arg_span.lo, n.map_arg_span.lo, n.map_arg_span.ctxt),
                       unwrap_snippet \o ", ")>>
           ELSE <<>>)
       \o <<Edit(TrailingSpan(n.span, n.unwrap_recv_span), "")>>

\* the vector handed to multipart_suggestion
Suggestion(n, unwrap_snippet) ==
    LET unwrap_snippet_none == unwrap_snippet = "None"
    IN <<Edit(n.map_span, IF unwrap_snippet_none THEN "and_then" ELSE "map_or"),
         Edit(TrailingSpan(n.span, n.unwrap_recv_span), "")>>
       \o (IF ~unwrap_snippet_none
           THEN <<Edit(Span(n.map_arg_span.lo, n.map_arg_span.lo, n.map_arg_span.ctxt),
                       unwrap_snippet \o ", ")>>
           ELSE <<>>)

\* lint, on n = [source, span, map_args, unwrap_args, the spans of the
\* arguments, map_span, and the two type facts]
lint(n) ==
    IF ~n.recv_is_option THEN <<>>
    ELSE IF GuardApplies(n.default_is_copy)
            /\ MapExprVisitor(n.map_args[2], UnwrapVisitor(n.unwrap_args[2]))
    THEN <<>>
    ELSE IF differing_macro_contexts(n.default_span, n.map_span) THEN <<>>
    ELSE LET unwrap_snippet == snippet(n.source, n.default_span)
             unwrap_snippet_none == unwrap_snippet = "None"
             arg == IF unwrap_snippet_none THEN "None" ELSE "a"
             suggest == IF unwrap_snippet_none THEN "and_then(f)" ELSE "map_or(a, f)"
         IN <<Finding("OPTION_MAP_UNWRAP_OR", n.span,
                      "called map(f).unwrap_or(" \o arg
                          \o ") on an Option value. This can be done more directly by calling "
                          \o suggest \o " instead",
                      "use " \o suggest \o " instead",
                      Suggestion(n, unwrap_snippet),
                      "MachineApplicable")>>

\* expressions of the map argument and of the default value
Lit(text) == Expr("Lit", "", text, <<>>)
Binary(l, r) == Expr("Binary", "", " + ", <<l, r>>)
Closure(param, body) == Expr("Closure", "", "|" \o param \o "| ", <<body>>)

PathsOffered ==
    {PathExpr(RESOLVED, "a"), PathExpr(RESOLVED, "b"), PathExpr(RESOLVED, "None"),
     Path(RESOLVED, <<"a", "b">>, "a::b", <<>>),
     Path(RESOLVED, <<"b">>, "b::<a>", <<PathExpr(RESOLVED, "a")>>),
     Path(TYPE_RELATIVE, <<"b">>, "a::b", <<PathExpr(RESOLVED, "a")>>)}

Defaults ==
    {Lit("0")} \cup PathsOffered
    \cup {Binary(PathExpr(RESOLVED, "a"), PathExpr(RESOLVED, "c")),
          Call(OTHER_FN, "a::new", <<PathExpr(RESOLVED, "c")>>)}

MapArgs ==
    PathsOffered
    \cup {Closure("v", body) :
            body \in PathsOffered
                     \cup {PathExpr(RESOLVED, "v"),
                           Binary(PathExpr(RESOLVED, "v"), Lit("1")),
                           Binary(PathExpr(RESOLVED, "v"), PathExpr(RESOLVED, "c"))}}

Receivers == {PathExpr(RESOLVED, "opt"), Expr("Field", "", "self.x", <<>>)}

\* the text between the map call and .unwrap_or
Gaps == {"", " "}

\* receiver.map(f).unwrap_or(default) as the methods pass hands it to lint
MapUnwrapOrNode(lead, recv, f, gap, d, map_ctxt, d_ctxt, is_option, is_copy) ==
    LET lo == Len(lead)
        recv_hi == lo + Len(ExprText(recv))
        f_lo == recv_hi + Len(".map(")
        f_hi == f_lo + Len(ExprText(f))
        d_lo == f_hi + Len(")") + Len(gap) + Len(".unwrap_or(")
        d_hi == d_lo + Len(ExprText(d))
    IN [kind |-> "MapUnwrapOr",
        source |-> lead \o ExprText(recv) \o ".map(" \o ExprText(f) \o ")" \o gap
                   \o ".unwrap_or(" \o ExprText(d) \o ")" \o ";",
        span |-> Span(lo, d_hi + 1, map_ctxt),
        map_args |-> <<recv, f>>,
        unwrap_args |-> <<Expr("MethodCall", "map", "", <<recv, f>>), d>>,
        map_span |-> Span(recv_hi + 1, recv_hi + 4, map_ctxt),
        map_arg_span |-> Span(f_lo, f_hi, map_ctxt),
        unwrap_recv_span |-> Span(lo, f_hi + 1, map_ctxt),
        default_span |-> Span(d_lo, d_hi, d_ctxt),
        recv_is_option |-> is_option,
        default_is_copy |-> is_copy]

\* the chains offered; a literal default value is of a Copy type
MapUnwrapOrNodes ==
    {n \in {MapUnwrapOrNode(lead, recv, f, gap, d, mc, dc, opt, copy) :
                lead \in Leads, recv \in Receivers, f \in MapArgs, gap \in Gaps,
                d \in Defaults, mc \in {ROOT, LOCAL_MACRO}, dc \in {ROOT, LOCAL_MACRO},
                opt \in BOOLEAN, copy \in BOOLEAN} :
        n.unwrap_args[2].kind = "Lit" => n.default_is_copy}

\* the methods pass has recognised _.map(_).unwrap_or(_) and calls lint
option_map_unwrap_or_lint(n) ==
    /\ pc = "idle"
    /\ node' = n
    /\ findings' = lint(n)
    /\ pc' = "visited"
    /\ UNCHANGED <<scan_vars, build_vars>>


(***************************************************************************)
(* The driver.                                                             *)
(***************************************************************************)
InitCommon ==
    /\ pc = "idle"
    /\ node = [kind |-> "None"]
    /\ findings = <<>>
    /\ the_str = ""
    /\ index = 0
    /\ current_start = 0
    /\ is_active = FALSE
    /\ spans = <<>>
    /\ pass = 1

\* the program as built: 32 bit offsets, either overflow mode
Init ==
    /\ InitCommon
    /\ bits = U32Bits
    /\ overflow_checks \in BOOLEAN

\* the same program with the offset type narrowed to NarrowBits bits
InitNarrow ==
    /\ InitCommon
    /\ bits = NarrowBits
    /\ overflow_checks \in BOOLEAN

\* the driver offers an attribute to TabsInDocComments
visit_attribute ==
    /\ pc = "idle"
    /\ \E attr \in Attributes : check_attribute(attr)

\* the driver offers an expression to MemReplace
visit_expr ==
    /\ pc = "idle"
    /\ \E n \in ReplaceNodes : MemReplace_check_expr(n)

\* the driver offers a map-then-unwrap_or chain to the methods pass
visit_method_chain ==
    /\ pc = "idle"
    /\ \E n \in MapUnwrapOrNodes : option_map_unwrap_or_lint(n)

Next ==
    \/ visit_attribute
    \/ get_chunks_of_tabs_enter
    \/ get_chunks_of_tabs_window
    \/ get_chunks_of_tabs_finish
    \/ warn_if_tabs_in_doc
    \/ rescan_fixed
    \/ visit_expr
    \/ visit_method_chain
    \/ next_node

Spec == Init /\ [][Next]_vars

SpecNarrow == InitNarrow /\ [][Next]_vars

(***************************************************************************)
(* Claims.                                                                 *)
(***************************************************************************)
\* the character offsets of s that hold a tab
TabOffsets(s) == {k \in 0..(CharCount(s) - 1) : CharAt(s, k) = TAB}

\* the character offsets covered by a list of chunks
Covered(chunks) ==
    UNION {chunks[i][1]..(chunks[i][2] - 1) : i \in 1..Len(chunks)}

\* C1: whenever get_chunks_of_tabs returns, the pairs it returns are the
\* maximal runs of tabs of its argument: every pair is non-empty, the pairs
\* are listed in increasing order with at least one character between two
\* of them, and together they cover exactly the offsets holding a tab.
C1_ChunksAreMaximalRuns ==
    pc = "returned" =>
        /\ \A i \in 1..Len(spans) : spans[i][1] < spans[i][2]
        /\ \A i \in 1..(Len(spans) - 1) : spans[i][2] < spans[i + 1][1]
        /\ Covered(spans) = TabOffsets(the_str)

\* a text starting with a tab, with two runs, the last reaching the end
C1_Witness ==
    /\ pc = "returned"
    /\ pass = 1
    /\ the_str = "\ta\t\t"
    /\ spans = <<(<<0, 1>>), (<<2, 4>>)>>


\* the findings of one lint among those reported for the node
FindingsOf(name) == SelectSeq(findings, LAMBDA f : f.lint = name)

\* the node visited is a two-argument call of the value-swap function and
\* its pass has run
ReplaceVisited ==
    /\ pc = "visited"
    /\ node.kind = "Expr"
    /\ node.expr.kind = "Call"
    /\ node.expr.tag = MEM_REPLACE
    /\ Len(node.expr.kids) = 2

ReplaceDest == node.expr.kids[1]
ReplaceSrc == node.expr.kids[2]

\* src is a path whose last segment is None, alone or after Option
SrcIsNone ==
    /\ ReplaceSrc.kind = "Path"
    /\ ReplaceSrc.segs \in {<<"None">>, <<"Option", "None">>}

\* dest with at most one mutable borrow stripped
StrippedDest ==
    IF ReplaceDest.kind = "AddrOf" /\ ReplaceDest.tag = "Ref, Mut"
    THEN ReplaceDest.kids[1]
    ELSE ReplaceDest

SrcIsDefaultCall ==
    /\ ReplaceSrc.kind = "Call"
    /\ ReplaceSrc.tag = DEFAULT_TRAIT_METHOD

\* C5 as stated: replace(dest, T::default()) inside macro-expanded text is
\* reported, without an edit; an edit is attached only outside expansions.
C5_Original ==
    (ReplaceVisited /\ SrcIsDefaultCall) =>
        /\ in_macro(node.span) =>
              /\ Len(FindingsOf("MEM_REPLACE_WITH_DEFAULT")) = 1
              /\ FindingsOf("MEM_REPLACE_WITH_DEFAULT")[1].edits = <<>>
        /\ \A i \in 1..Len(findings) :
              findings[i].edits # <<>> => ~in_macro(node.span)

\* C5 amended: inside the expansion of a macro of the same crate the call is
\* reported once, without an edit; inside the expansion of a macro of
\* another crate nothing is reported; an edit is attached only outside
\* expansions.
C5_MessageOnlyInLocalMacro ==
    (ReplaceVisited /\ SrcIsDefaultCall) =>
        /\ (in_macro(node.span) /\ ~in_external_macro(node.span)) =>
              /\ Len(FindingsOf("MEM_REPLACE_WITH_DEFAULT")) = 1
              /\ FindingsOf("MEM_REPLACE_WITH_DEFAULT")[1].edits = <<>>
        /\ in_external_macro(node.span) => findings = <<>>
        /\ \A i \in 1..Len(findings) :
              findings[i].edits # <<>> => ~in_macro(node.span)

\* the call inside a local macro's expansion, reported without an edit
C5_Witness ==
    /\ ReplaceVisited
    /\ SrcIsDefaultCall
    /\ node.span.ctxt = LOCAL_MACRO
    /\ Len(findings) = 1
    /\ findings[1].lint = "MEM_REPLACE_WITH_DEFAULT"
    /\ findings[1].edits = <<>>

\* C6 as stated: outside expansions, replace(dest, T::default(..)) gets one
\* finding with one MachineApplicable edit replacing the call by
\* take(<dest-snippet>); for replace(&mut text, String::default()) the
\* replacement is take(text).
C6_Original ==
    (ReplaceVisited /\ SrcIsDefaultCall /\ ~in_macro(node.span)) =>
        /\ Len(findings) = 1
        /\ findings[1].applicability = "MachineApplicable"
        /\ findings[1].edits =
               <<Edit(node.span, "take(" \o ExprText(ReplaceDest) \o ")")>>
        /\ (ExprText(node.expr) = "mem::replace(&mut text, String::default())"
               => findings[1].edits[1].text = "take(text)")

\* C6 amended: the replacement text is std::mem::take(<dest-snippet>) with
\* the whole source text of dest, borrow included; for
\* replace(&mut text, String::default()) it is std::mem::take(&mut text).
C6_StdMemTakeOfDest ==
    (ReplaceVisited /\ SrcIsDefaultCall /\ ~in_macro(node.span)) =>
        /\ Len(findings) = 1
        /\ findings[1].lint = "MEM_REPLACE_WITH_DEFAULT"
        /\ findings[1].applicability = "MachineApplicable"
        /\ findings[1].edits =
               <<Edit(node.span, "std::mem::take(" \o ExprText(ReplaceDest) \o ")")>>
        /\ (ExprText(node.expr) = "mem::replace(&mut text, String::default())"
               => findings[1].edits[1].text = "std::mem::take(&mut text)")

\* replace(&mut text, String::default()) outside expansions
C6_Witness ==
    /\ ReplaceVisited
    /\ node.source = "let old = mem::replace(&mut text, String::default());"
    /\ node.span.ctxt = ROOT
    /\ Len(findings) = 1
    /\ findings[1].edits[1].text = "std::mem::take(&mut text)"

\* C7: for replace(dest, src) with src a call: with no arguments and a
\* callee resolving to mem::uninitialized exactly one
\* MEM_REPLACE_WITH_UNINIT finding is reported whatever the type of src;
\* with no arguments and a callee resolving to mem::zeroed one is reported
\* exactly when the type of src is not primitive; the finding has no edit;
\* with arguments, or a callee that does not resolve, none is reported.
C7_UninitAndZeroed ==
    (ReplaceVisited /\ ReplaceSrc.kind = "Call") =>
        LET found == FindingsOf("MEM_REPLACE_WITH_UNINIT")
            expected ==
                /\ ReplaceSrc.kids = <<>>
                /\ \/ ReplaceSrc.tag = MEM_UNINITIALIZED
                   \/ ReplaceSrc.tag = MEM_ZEROED /\ ~node.src_ty_is_primitive
        IN /\ Len(found) = (IF expected THEN 1 ELSE 0)
           /\ \A i \in 1..Len(found) : found[i].edits = <<>>

\* mem::zeroed() of a non-primitive type is reported, without an edit
C7_Witness ==
    /\ ReplaceVisited
    /\ ReplaceSrc.kind = "Call"
    /\ ReplaceSrc.tag = MEM_ZEROED
    /\ ReplaceSrc.kids = <<>>
    /\ ~node.src_ty_is_primitive
    /\ Len(findings) = 1
    /\ findings[1].lint = "MEM_REPLACE_WITH_UNINIT"
    /\ findings[1].edits = <<>>


\* the edit with the least start among a non-empty list of edits, the first
\* such in the list
FirstEdit(edits) ==
    LET least == CHOOSE i \in 1..Len(edits) :
                    \A j \in 1..Len(edits) :
                        \/ edits[i].span.lo < edits[j].span.lo
                        \/ edits[i].span.lo = edits[j].span.lo /\ i <= j
    IN least

RECURSIVE SpliceFrom(_, _, _)
\* the text from offset pos on, with the edits applied in the order of
\* their starts, as the reporter applies the parts of a suggestion
SpliceFrom(source, edits, pos) ==
    IF edits = <<>> THEN SubSeq(source, pos + 1, Len(source))
    ELSE LET i == FirstEdit(edits)
             rest == [j \in 1..(Len(edits) - 1) |->
                        IF j < i THEN edits[j] ELSE edits[j + 1]]
         IN SubSeq(source, pos + 1, edits[i].span.lo) \o edits[i].text
            \o SpliceFrom(source, rest, edits[i].span.hi)

ApplyEdits(source, edits) == SpliceFrom(source, edits, 0)

\* lint has run on a map-then-unwrap_or chain
ChainVisited == pc = "visited" /\ node.kind = "MapUnwrapOr"

ChainLead == SubSeq(node.source, 1, node.span.lo)
ChainR == ExprText(node.map_args[1])
ChainF == ExprText(node.map_args[2])
ChainD == ExprText(node.unwrap_args[2])

\* C2: when lint reports R.map(F).unwrap_or(D), its edits are the rename of
\* the method name, the deletion of everything from the end of R.map(F) to
\* the end of the expression and, unless D is None, the zero-width
\* insertion of "D, " at the start of F; applied to the text they yield
\* R.map_or(D, F), or R.and_then(F) when D is None.
C2_SuggestionRewritesChain ==
    (ChainVisited /\ findings # <<>>) =>
        LET edits == findings[1].edits
            recv_hi == node.span.lo + Len(ChainR)
            f_lo == recv_hi + 5
            f_hi == f_lo + Len(ChainF)
            rename(to) == Edit(Span(recv_hi + 1, recv_hi + 4, node.span.ctxt), to)
            delete == Edit(Span(f_hi + 1, node.span.hi, node.span.ctxt), "")
            insert == Edit(Span(f_lo, f_lo, node.span.ctxt), ChainD \o ", ")
        IN /\ Len(findings) = 1
           /\ IF ChainD = "None"
              THEN /\ {edits[i] : i \in 1..Len(edits)} = {rename("and_then"), delete}
                   /\ Len(edits) = 2
                   /\ ApplyEdits(node.source, edits)
                        = ChainLead \o ChainR \o ".and_then(" \o ChainF \o ");"
              ELSE /\ {edits[i] : i \in 1..Len(edits)} = {rename("map_or"), delete, insert}
                   /\ Len(edits) = 3
                   /\ ApplyEdits(node.source, edits)
                        = ChainLead \o ChainR \o ".map_or(" \o ChainD \o ", "
                          \o ChainF \o ");"

\* opt.map(|v| v + 1) .unwrap_or(0) is rewritten to opt.map_or(0, |v| v + 1)
C2_Witness ==
    /\ ChainVisited
    /\ node.source = "let old = opt.map(|v| v + 1) .unwrap_or(0);"
    /\ Len(findings) = 1
    /\ ApplyEdits(node.source, findings[1].edits) = "let old = opt.map_or(0, |v| v + 1);"

RECURSIVE Descendants(_)
\* an expression and everything under it
Descendants(e) == {e} \cup UNION {Descendants(e.kids[i]) : i \in 1..Len(e.kids)}

\* the last-segment names of the paths in an expression; a type-relative
\* path a::b is the path a of its type followed by a segment
LastSegmentNames(e) ==
    {p.segs[Len(p.segs)] :
        p \in {d \in Descendants(e) : d.kind = "Path" /\ d.tag # TYPE_RELATIVE}}

\* C3: lint reports exactly one finding when the receiver is an Option, the
\* default value is Copy or shares no last-segment path name with the map
\* argument, and the default value and the map span have the same expansion
\* context; otherwise it reports nothing.
C3_FindingIffGuardsPass ==
    ChainVisited =>
        LET fires ==
                /\ node.recv_is_option
                /\ \/ node.default_is_copy
                   \/ LastSegmentNames(node.map_args[2])
                        \cap LastSegmentNames(node.unwrap_args[2]) = {}
                /\ node.default_span.ctxt = node.map_span.ctxt
        IN Len(findings) = (IF fires THEN 1 ELSE 0)

\* a default value that is not Copy and names c, which the closure uses too
C3_Witness ==
    /\ ChainVisited
    /\ node.recv_is_option
    /\ ~node.default_is_copy
    /\ node.default_span.ctxt = node.map_span.ctxt
    /\ ChainF = "|v| v + c"
    /\ ChainD = "a + c"
    /\ findings = <<>>

\* the edits are listed by non-decreasing start
InSourceOrder(edits) ==
    \A i \in 1..(Len(edits) - 1) : edits[i].span.lo <= edits[i + 1].span.lo

\* C10 as stated: every finding lists its edits in source order.
C10_Original ==
    pc = "visited" => \A i \in 1..Len(findings) : InSourceOrder(findings[i].edits)

\* C10 amended: every finding lists its edits in source order, except the
\* map_or form of the map-then-unwrap_or rule, which hands over the rename,
\* then the deletion of the trailing text, then the insertion before the
\* closure argument, whose start lies before the deletion's.
C10_SourceOrderButMapOr ==
    pc = "visited" =>
        \A i \in 1..Len(findings) :
            LET edits == findings[i].edits
            IN IF findings[i].lint = "OPTION_MAP_UNWRAP_OR" /\ Len(edits) = 3
               THEN /\ edits[1].text = "map_or"
                    /\ edits[2].text = ""
                    /\ edits[3].span.lo = edits[3].span.hi
                    /\ edits[1].span.lo < edits[3].span.lo
                    /\ edits[3].span.lo < edits[2].span.lo
               ELSE InSourceOrder(edits)

\* a map_or suggestion, with its three edits
C10_Witness ==
    /\ ChainVisited
    /\ Len(findings) = 1
    /\ Len(findings[1].edits) = 3
    /\ findings[1].edits[1].text = "map_or"
    /\ ~InSourceOrder(findings[1].edits)


\* C8: get_chunks_of_tabs never returns a pair with an offset that was
\* truncated or wrapped: whenever it returns, every pair lies inside the
\* text, is non-empty and spans tabs only; an `index + 1` or a character
\* count that does not fit the offset type ends in the panic instead.
C8_NoWrappedOffsetReturned ==
    pc = "returned" =>
        \A i \in 1..Len(spans) :
            /\ spans[i][1] < spans[i][2]
            /\ spans[i][2] <= CharCount(the_str)
            /\ \A k \in spans[i][1]..(spans[i][2] - 1) : CharAt(the_str, k) = TAB

\* C9: the text in which every tab of every returned pair is replaced by
\* four spaces is scanned again, and the scan returns no pair.
C9_RescanFindsNoTabs ==
    (pc = "returned" /\ pass = 2) => spans = <<>>

\* the comment "\t\ta\t" after the replacement, scanned again
C9_Witness ==
    /\ pc = "returned"
    /\ pass = 2
    /\ node.comment = "\t\ta\t"
    /\ the_str = "        a    "
    /\ spans = <<>>

\* the byte offset in the source of the character offset k of s
ByteOffset(s, k) == Len(ByteText(SubSeq(s, 1, k)))

\* the character offsets at which a maximal run of tabs starts
RunStarts(s) ==
    {k \in TabOffsets(s) : k = 0 \/ CharAt(s, k - 1) # TAB}

\* the end of the run of tabs that starts at lo
RunEnd(s, lo) ==
    CHOOSE hi \in (lo + 1)..CharCount(s) :
        /\ \A k \in lo..(hi - 1) : CharAt(s, k) = TAB
        /\ hi = CharCount(s) \/ CharAt(s, hi) # TAB

\* the findings fs are one per run of tabs of the comment s of attr, each
\* over the bytes of its run and replacing them by four spaces per tab
FindingsCoverRuns(s, attr, fs) ==
    /\ Len(fs) = Cardinality(RunStarts(s))
    /\ \A lo \in RunStarts(s) :
          LET hi == RunEnd(s, lo)
              bytes == Span(attr.lo + ByteOffset(s, lo),
                            attr.lo + ByteOffset(s, hi), attr.ctxt)
          IN \E i \in 1..Len(fs) :
                /\ fs[i].span = bytes
                /\ fs[i].edits = <<Edit(bytes, Repeat(" ", 4 * (hi - lo)))>>

\* C11: when warn_if_tabs_in_doc has gone through the pairs returned for a
\* documentation comment, it has reported one finding per run of tabs; the
\* span of the finding, read as byte offsets into the source, covers the
\* bytes of the tabs of the run and nothing else, whatever characters come
\* before the run, and the replacement is four spaces per tab.  An attribute
\* that is no documentation comment gets no finding.
C11_SpansCoverTabBytes ==
    [][/\ (pc = "returned" /\ pc' = "visited")
            => FindingsCoverRuns(the_str, node, findings')
       /\ (pc = "idle" /\ pc' = "visited" /\ node'.kind = "Normal")
            => findings' = <<>>]_vars


====
